---- MODULE Spec2Model ----
(***************************************************************************)
(* A model of teneto's time-varying connectivity derivation                *)
(* (src/teneto/derive/derive.py): derive() and the weight functions it     *)
(* dispatches to, the weighted Pearson correlation it reduces the weights  *)
(* with, the jackknife sign correction, post-processing and the report.    *)
(*                                                                         *)
(* Arrays keep the source's 0-based indices: a vector of length n is a     *)
(* function on 0..n-1, a matrix a vector of rows.                          *)
(*                                                                         *)
(* Numbers.  Floating point is modelled by exact arithmetic extended with  *)
(* the IEEE specials the code relies on:                                   *)
(*   a weight is an extended rational [n, d]: d > 0 is n/d in lowest       *)
(*   terms, d = 0 is NaN (n = 0), +inf (n = 1) or -inf (n = -1);           *)
(*   a tensor entry is [f, s, n, d]: with f = "id" and d > 0 it is the     *)
(*   real s * sqrt(n/d) (n/d in lowest terms, s the sign), with d = 0 it   *)
(*   is NaN (s = 0), +inf (s = 1) or -inf (s = -1); f = "atanh" is the     *)
(*   Fisher transform of that (finite) real.                               *)
(***************************************************************************)
EXTENDS Integers, Sequences, FiniteSets, TLC

\* ------------------------------------------------------------------ bounds
\* Largest number of time points, of nodes, and of entries of a data matrix.
MaxT == 3
MaxN == 3
MaxCells == 6

\* ------------------------------------------------------------- arithmetic
Abs(x) == IF x < 0 THEN -x ELSE x

Sgn(x) == IF x < 0 THEN -1 ELSE IF x = 0 THEN 0 ELSE 1

RECURSIVE GCD(_, _)
GCD(a, b) == IF b = 0 THEN a ELSE GCD(b, a % b)

Size(v) == Cardinality(DOMAIN v)

\* sum of v[0] .. v[n-1]
RECURSIVE SumTo(_, _)
SumTo(v, n) == IF n = 0 THEN 0 ELSE v[n - 1] + SumTo(v, n - 1)

SumV(v) == SumTo(v, Size(v))

\* ---- extended rationals (weights)
Rat(n, d) ==
    IF n = 0 THEN [n |-> 0, d |-> 1]
    ELSE LET g == GCD(Abs(n), d) IN [n |-> n \div g, d |-> d \div g]

NaN == [n |-> 0, d |-> 0]
PInf == [n |-> 1, d |-> 0]
NInf == [n |-> -1, d |-> 0]
Zero == [n |-> 0, d |-> 1]
One == [n |-> 1, d |-> 1]

IsNaN(a) == a.d = 0 /\ a.n = 0
IsInf(a) == a.d = 0 /\ a.n # 0
IsFinite(a) == a.d > 0

\* a < b for non-NaN extended rationals
XLess(a, b) ==
    IF IsInf(a) THEN a.n < 0 /\ b # NInf
    ELSE IF IsInf(b) THEN b.n > 0
    ELSE a.n * b.d < b.n * a.d

XLeq(a, b) == a = b \/ XLess(a, b)

\* IEEE a - b
XSub(a, b) ==
    IF IsNaN(a) \/ IsNaN(b) THEN NaN
    ELSE IF IsInf(a) THEN (IF a = b THEN NaN ELSE a)
    ELSE IF IsInf(b) THEN (IF b = PInf THEN NInf ELSE PInf)
    ELSE Rat(a.n * b.d - b.n * a.d, a.d * b.d)

\* IEEE a / b (the sign of a zero is not tracked: every zero divisor that
\* arises is a +0)
XDiv(a, b) ==
    IF IsNaN(a) \/ IsNaN(b) THEN NaN
    ELSE IF IsInf(a) THEN (IF IsInf(b) THEN NaN
                           ELSE IF a.n * Sgn(b.n) < 0 THEN NInf ELSE PInf)
    ELSE IF IsInf(b) THEN Zero
    ELSE IF b.n = 0 THEN (IF a.n = 0 THEN NaN
                          ELSE IF a.n < 0 THEN NInf ELSE PInf)
    ELSE Rat(a.n * b.d * Sgn(b.n), a.d * Abs(b.n))

\* ---- tensor entries
Surd(s, n, d) ==
    IF s = 0 \/ n = 0 THEN [f |-> "id", s |-> 0, n |-> 0, d |-> 1]
    ELSE LET g == GCD(n, d) IN [f |-> "id", s |-> s, n |-> n \div g, d |-> d \div g]

RNaN == [f |-> "id", s |-> 0, n |-> 0, d |-> 0]
RInf(s) == [f |-> "id", s |-> s, n |-> 1, d |-> 0]
RZero == [f |-> "id", s |-> 0, n |-> 0, d |-> 1]

RIsNaN(r) == r.d = 0 /\ r.s = 0
RIsInf(r) == r.d = 0 /\ r.s # 0

\* r * -1
RNeg(r) == [r EXCEPT !.s = -r.s]

\* ------------------------------------------------------------ numpy helpers
\* np.ones / np.zeros of shape [r, c] and of length n
Ones(r, c) == [i \in 0..r - 1 |-> [j \in 0..c - 1 |-> One]]

ZerosV(n) == [j \in 0..n - 1 |-> Zero]

\* np.fill_diagonal(m, v)
FillDiagonal(m, v) ==
    [i \in DOMAIN m |-> [j \in DOMAIN m[i] |-> IF i = j THEN v ELSE m[i][j]]]

\* a roll to the left: the entry at j moves to (j - i) mod len(v)
Roll_Left(v, i) ==
    LET n == Size(v) IN [j \in DOMAIN v |-> v[(j + (i % n)) % n]]

\* np.roll(v, i): the entry at j moves to (j + i) mod len(v)
Roll(v, i) ==
    LET n == Size(v) IN [j \in DOMAIN v |-> v[(j + n - (i % n)) % n]]

\* len(v[0:k]) for k >= 0
SliceLen(n, k) == IF k < n THEN k ELSE n

\* v[0:k] = src, for src of length k: numpy broadcasts src to the slice, which
\* works when the lengths agree or src has length 1, and raises ValueError
\* otherwise
\* an assignment that clips the source to the slice
CanAssignSlice_Clipped(n, k) == TRUE

CanAssignSlice(n, k) == SliceLen(n, k) = k \/ k = 1

AssignSlice(v, k, src) ==
    [j \in DOMAIN v |-> IF j < SliceLen(Size(v), k)
                        THEN (IF Size(src) = 1 THEN src[0] ELSE src[j])
                        ELSE v[j]]

\* np.nanmin / np.nanmax over all entries of a matrix (NaN when all are NaN)
NonNaN(m) == {m[i][j] : i \in DOMAIN m, j \in DOMAIN m} \ {NaN}

NanMin(m) ==
    IF NonNaN(m) = {} THEN NaN
    ELSE CHOOSE x \in NonNaN(m) : \A y \in NonNaN(m) : XLeq(x, y)

NanMax(m) ==
    IF NonNaN(m) = {} THEN NaN
    ELSE CHOOSE x \in NonNaN(m) : \A y \in NonNaN(m) : XLeq(y, x)

\* a matrix's transpose (data.transpose())
Transpose(m) ==
    IF Size(m) = 0 THEN m
    ELSE [j \in DOMAIN m[0] |-> [i \in DOMAIN m |-> m[i][j]]]

\* a python dict with no key, and d[k] = v
EmptyDict == [k \in {} |-> 0]

Put(d, k, v) == [x \in (DOMAIN d) \cup {k} |-> IF x = k THEN v ELSE d[x]]

\* the value of report['slidingwindow']: the params dict itself, not a copy
ParamsRef == "the params object"

\* what a weight function hands back: the exception it raised ("" for none),
\* the weight matrix, the report and the (mutated in place) params
WeightResult(exc, w, rep, par) ==
    [exc |-> exc, weights |-> w, report |-> rep, params |-> par]

NoWeights == [i \in {} |-> 0]

\* ------------------------------------------------------------ weight functions
\* the weights without the zeroed diagonal
weightfun_jackknife_ones(T, rep) ==
    WeightResult("", Ones(T, T), rep, EmptyDict)

weightfun_jackknife(T, rep) ==
    LET weights == Ones(T, T)
    IN  WeightResult("", FillDiagonal(weights, Zero), rep, EmptyDict)

\* one row per time point: the last k-1 windows wrap around
SlidingWeights_AllShifts(T, k, weightat0) ==
    [i \in 0..(T - 1) |-> Roll(weightat0, i)]

\* lines 197-198 and 214-215
SlidingWeights(T, k, weightat0) == [i \in 0..(T - k) |-> Roll(weightat0, i)]

TaperStr(s) == [kind |-> "str", s |-> s, v |-> NoWeights]
TaperVec(v) == [kind |-> "vector", s |-> "", v |-> v]

weightfun_sliding_window(T, par, rep) ==
    IF "windowsize" \notin DOMAIN par
    THEN WeightResult("KeyError", NoWeights, rep, par)
    ELSE LET k == par["windowsize"]
             ones == [j \in 0..k - 1 |-> One]
         IN  IF ~CanAssignSlice(T, k)
             THEN WeightResult("ValueError", NoWeights, rep, par)
             ELSE WeightResult("",
                      SlidingWeights(T, k, AssignSlice(ZerosV(T), k, ones)),
                      Put(Put(rep, "method", "slidingwindow"),
                          "slidingwindow", ParamsRef),
                      Put(par, "taper", TaperStr("untapered/uniform")))

\* an abscissa of k points that starts at -k/2: np.arange(-k/2, k/2)
TaperWindow2_OffCentre(k) == [i \in 0..k - 1 |-> -k + 2 * i]

\* x = np.arange(-(k-1)/2, k/2), kept doubled so that it stays integral:
\* the i-th point is -(k-1)/2 + i for as long as that is below k/2
TaperWindow2(k) ==
    LET n == CHOOSE m \in 0..k + 1 :
                 /\ \A i \in 0..m - 1 : -(k - 1) + 2 * i < k
                 /\ -(k - 1) + 2 * m >= k
    IN  [i \in 0..n - 1 |-> -(k - 1) + 2 * i]

\* scipy.stats.uniform.pdf(x, loc, scale) at x = x2/2, loc and scale defaulting
\* to 0 and 1: 1/scale on [loc, loc + scale], 0 outside, NaN for scale <= 0
UniformPdf(x2, dp) ==
    LET loc == IF Len(dp) >= 1 THEN dp[1] ELSE 0
        scale == IF Len(dp) >= 2 THEN dp[2] ELSE 1
    IN  IF scale <= 0 THEN NaN
        ELSE IF 2 * loc <= x2 /\ x2 <= 2 * (loc + scale) THEN Rat(1, scale)
        ELSE Zero

\* the names eval('sps.' + name + '.pdf(...)') resolves in this model
Distributions == {"uniform"}

weightfun_tapered_sliding_window(T, par, rep) ==
    IF {"windowsize", "distribution_params", "distribution"} \ DOMAIN par # {}
    THEN WeightResult("KeyError", NoWeights, rep, par)
    ELSE LET k == par["windowsize"]
             x == TaperWindow2(k)
             dp == par["distribution_params"]
             taper == [i \in DOMAIN x |-> UniformPdf(x[i], dp)]
         IN  IF par["distribution"] \notin Distributions
             THEN WeightResult("AttributeError", NoWeights, rep, par)
             ELSE IF Len(dp) > 2
             THEN WeightResult("TypeError", NoWeights, rep, par)
             ELSE IF ~CanAssignSlice(T, k)
             THEN WeightResult("ValueError", NoWeights, rep, par)
             ELSE WeightResult("",
                      SlidingWeights(T, k, AssignSlice(ZerosV(T), k, taper)),
                      Put(Put(rep, "method", "slidingwindow"),
                          "slidingwindow", ParamsRef),
                      Put(Put(par, "taper", TaperVec(taper)), "taper_window", x))

\* scipy's hamming distance of two vectors: the proportion of positions at
\* which they differ
Hamming(u, v) ==
    Rat(Cardinality({i \in DOMAIN u : u[i] # v[i]}), Size(u))

\* teneto.utils.getDistanceFunction: the names it resolves in this model
DistanceNames == {"hamming"}

getDistanceFunction(name, u, v) == Hamming(u, v)

\* lines 225-231: the inverse distances of the rows of dat, the diagonal
\* excluded, scaled by their minimum and maximum
ScaledInverseDistance(dat, name) ==
    LET n0 == Size(dat)
        dist == [n \in 0..n0 - 1 |-> [t \in 0..n0 - 1 |->
                    getDistanceFunction(name, dat[n], dat[t])]]
        nodiag == FillDiagonal(dist, NaN)
        inv == [n \in 0..n0 - 1 |-> [t \in 0..n0 - 1 |->
                    XDiv(One, nodiag[n][t])]]
        lo == NanMin(inv)
        hi == NanMax(inv)
    IN  [n \in 0..n0 - 1 |-> [t \in 0..n0 - 1 |->
            XDiv(XSub(inv[n][t], lo), XSub(hi, lo))]]

\* the distances taken between the columns (nodes) of the data
weightfun_spatial_distance_nodes(dat, par, rep) ==
    IF "distance" \notin DOMAIN par
    THEN WeightResult("KeyError", NoWeights, rep, par)
    ELSE WeightResult("",
             FillDiagonal(ScaledInverseDistance(Transpose(dat), par["distance"]),
                          One),
             rep, par)

\* the diagonal left as the scaling produced it
weightfun_spatial_distance_nofill(dat, par, rep) ==
    IF "distance" \notin DOMAIN par
    THEN WeightResult("KeyError", NoWeights, rep, par)
    ELSE WeightResult("", ScaledInverseDistance(dat, par["distance"]), rep, par)

weightfun_spatial_distance(dat, par, rep) ==
    IF "distance" \notin DOMAIN par
    THEN WeightResult("KeyError", NoWeights, rep, par)
    ELSE WeightResult("",
             FillDiagonal(ScaledInverseDistance(dat, par["distance"]), One),
             rep, par)

\* ------------------------------------------------ weighted Pearson correlation
\* positive integers proportional to the finite weights w (a common positive
\* factor of the weights cancels in the correlation)
RECURSIVE LcmTo(_, _)
LcmTo(w, n) ==
    IF n = 0 THEN 1
    ELSE LET l == LcmTo(w, n - 1) IN (l * w[n - 1].d) \div GCD(l, w[n - 1].d)

IntWeights(w) ==
    LET l == LcmTo(w, Size(w)) IN [t \in DOMAIN w |-> w[t].n * (l \div w[t].d)]

\* DescrStatsW(X, w).corrcoef for X of shape (T, N) and weights w of length T:
\* cov / std / std[:, None] with mean = sum(w*x)/sum(w), cov and var the
\* w-weighted (co)variances about it divided by sum(w), std = sqrt(var).
\* With S = sum(w) and dev = S*(x - mean), A[i][j] = sum(w*dev_i*dev_j) is
\* S^3 * cov[i][j].
corrcoef(X, w) ==
    LET T == Size(X)
        N == Size(X[0])
        bad == \E t \in DOMAIN w : ~IsFinite(w[t])
        W == IntWeights(w)
        S == SumV(W)
        M == [i \in 0..N - 1 |-> SumV([t \in 0..T - 1 |-> W[t] * X[t][i]])]
        dev == [i \in 0..N - 1 |-> [t \in 0..T - 1 |-> S * X[t][i] - M[i]]]
        A == [i \in 0..N - 1 |-> [j \in 0..N - 1 |->
                 SumV([t \in 0..T - 1 |-> W[t] * dev[i][t] * dev[j][t]])]]
        entry(i, j) ==
            LET vi == Sgn(A[i][i]) * Sgn(S)
                vj == Sgn(A[j][j]) * Sgn(S)
                c == Sgn(A[i][j]) * Sgn(S)
            IN  IF vi < 0 \/ vj < 0 THEN RNaN
                ELSE IF vi = 0 \/ vj = 0
                THEN (IF c = 0 THEN RNaN ELSE RInf(c))
                ELSE Surd(c, A[i][j] * A[i][j], A[i][i] * A[j][j])
    IN  IF bad \/ S = 0
        THEN [i \in 0..N - 1 |-> [j \in 0..N - 1 |-> RNaN]]
        ELSE [i \in 0..N - 1 |-> [j \in 0..N - 1 |-> entry(i, j)]]

\* the slices stacked along the first axis and left there
WeightedCorrelation_NoTranspose(X, wts) ==
    [w \in DOMAIN wts |-> corrcoef(X, wts[w])]

\* R = np.array([corrcoef for each weight row]).transpose([1, 2, 0])
WeightedCorrelation(X, wts) ==
    LET slices == [w \in DOMAIN wts |-> corrcoef(X, wts[w])]
        N == Size(X[0])
    IN  [i \in 0..N - 1 |-> [j \in 0..N - 1 |-> [w \in DOMAIN wts |->
            slices[w][i][j]]]]

NoTensor == [i \in {} |-> 0]

\* ------------------------------------------------------ temporal derivative
\* an entry of tdat = diff / std(diff): NaN, +-inf, or the finite
\* num * L / sqrt(V) (V = L^2 * var of the node's difference series)
TdatEntry(delta, V) ==
    IF V > 0 THEN [cls |-> "fin", sg |-> Sgn(delta), num |-> delta]
    ELSE IF delta = 0 THEN [cls |-> "nan", sg |-> 0, num |-> 0]
    ELSE [cls |-> "inf", sg |-> Sgn(delta), num |-> 0]

\* IEEE a * b on such entries
TdatTimes(a, b) ==
    IF a.cls = "nan" \/ b.cls = "nan" THEN [cls |-> "nan", sg |-> 0, num |-> 0]
    ELSE IF a.cls = "inf" \/ b.cls = "inf"
    THEN (IF a.sg * b.sg = 0 THEN [cls |-> "nan", sg |-> 0, num |-> 0]
          ELSE [cls |-> "inf", sg |-> a.sg * b.sg, num |-> 0])
    ELSE [cls |-> "fin", sg |-> a.sg * b.sg, num |-> a.num * b.num]

\* np.mean of the k products c[w .. w+k-1] of nodes i and j
MeanOfProducts(c, w, k, L, Vi, Vj) ==
    LET win == w..(w + k - 1)
        P == SumV([t \in 0..k - 1 |-> c[w + t].num])
    IN  IF k = 0 \/ \E t \in win : c[t].cls = "nan" THEN RNaN
        ELSE IF \E t \in win : c[t].cls = "inf"
        THEN (IF \E t, u \in win : c[t].cls = "inf" /\ c[u].cls = "inf"
                                   /\ c[t].sg # c[u].sg
              THEN RNaN
              ELSE RInf(c[CHOOSE t \in win : c[t].cls = "inf"].sg))
        ELSE Surd(Sgn(P), P * P * L * L * L * L, k * k * Vi * Vj)

\* a window that leaves out its last value
WindowMean_Short(c, w, k, L, Vi, Vj) == MeanOfProducts(c, w, k - 1, L, Vi, Vj)

\* lines 251-255: window w of the strided view holds c[w], ..., c[w+k-1]
WindowMean(c, w, k, L, Vi, Vj) == MeanOfProducts(c, w, k, L, Vi, Vj)

\* a depth that counts one window too few
WindowCount_Short(L, k) == L - k

\* lines 251-252: coupling.shape[-1] - params['windowsize'] + 1
WindowCount(L, k) == L - k + 1

temporal_derivative(dat, par, rep) ==
    LET T == Size(dat)
        N == Size(dat[0])
        L == T - 1
        diff == [t \in 0..L - 1 |-> [n \in 0..N - 1 |->
                    dat[t + 1][n] - dat[t][n]]]
        V == [n \in 0..N - 1 |->
                 L * SumV([t \in 0..L - 1 |-> diff[t][n] * diff[t][n]])
                 - SumV([t \in 0..L - 1 |-> diff[t][n]])
                   * SumV([t \in 0..L - 1 |-> diff[t][n]])]
        tdat == [t \in 0..L - 1 |-> [n \in 0..N - 1 |->
                    TdatEntry(diff[t][n], V[n])]]
        coupling == [i \in 0..N - 1 |-> [j \in 0..N - 1 |-> [t \in 0..L - 1 |->
                        TdatTimes(tdat[t][i], tdat[t][j])]]]
    IN  IF "windowsize" \notin DOMAIN par
        THEN [exc |-> "KeyError", R |-> NoTensor, report |-> rep]
        ELSE LET k == par["windowsize"]
                 depth == WindowCount(L, k)
             IN  IF depth < 0
                 THEN [exc |-> "ValueError", R |-> NoTensor, report |-> rep]
                 ELSE [exc |-> "",
                       R |-> [i \in 0..N - 1 |-> [j \in 0..N - 1 |->
                                 [w \in 0..depth - 1 |->
                                     WindowMean(coupling[i][j], w, k, L,
                                                V[i], V[j])]]],
                       report |-> Put(Put(EmptyDict, "method",
                                          "temporalderivative"),
                                      "temporalderivative",
                                      [windowsize |-> k])]

\* ------------------------------------------------------------ post-processing
\* np.arctanh of a tensor entry
Fisher(r) ==
    IF r.d = 0 THEN RNaN
    ELSE IF r.n > r.d THEN RNaN
    ELSE IF r.n = r.d THEN RInf(r.s)
    ELSE IF r.s = 0 THEN r
    ELSE [r EXCEPT !.f = "atanh"]

FisherTensor(X) ==
    [i \in DOMAIN X |-> [j \in DOMAIN X[i] |-> [w \in DOMAIN X[i][j] |->
        Fisher(X[i][j][w])]]]

\* R * -1
NegTensor(X) ==
    [i \in DOMAIN X |-> [j \in DOMAIN X[i] |-> [w \in DOMAIN X[i][j] |->
        RNeg(X[i][j][w])]]]

\* teneto.derive.postpro_pipeline(R, 'fisher', report)
postpro_pipeline(X, postpro, rep) ==
    [R |-> FisherTensor(X), report |-> Put(rep, "fisher", "performed")]

\* a zeroing that spares the negative infinities
ZeroInf_PositiveOnly(X) ==
    [i \in DOMAIN X |-> [j \in DOMAIN X[i] |-> [w \in DOMAIN X[i][j] |->
        IF RIsInf(X[i][j][w]) /\ X[i][j][w].s > 0 THEN RZero ELSE X[i][j][w]]]]

\* R[np.isinf(R)] = 0
ZeroInf(X) ==
    [i \in DOMAIN X |-> [j \in DOMAIN X[i] |-> [w \in DOMAIN X[i][j] |->
        IF RIsInf(X[i][j][w]) THEN RZero ELSE X[i][j][w]]]]

\* ------------------------------------------------------------------- state
VARIABLES
    data,       \* the caller's data matrix
    params,     \* the caller's params dict (derive writes to it in place)
    cdata,      \* derive's local `data`: the caller's matrix or its transpose
    pc,         \* where derive is
    weights,    \* derive's local `weights` (NoWeights while unset)
    relation,   \* derive's local `relation` ("" while unset)
    R,          \* derive's local `R` (NoTensor while unset)
    report,     \* derive's local `report`
    outcome,    \* "" while running, "ok" on return, else the exception raised
    returned,   \* the names of the values handed back to the caller
    written     \* the directories gen_report was called on

\* the state of a call of derive
deriveVars == <<data, params, cdata, pc, weights, relation, R, report, outcome,
                returned, written>>

\* a TenetoBIDS object (src/teneto/classes/bids.py), the directory it works
\* on, and what its last operation did
VARIABLES
    history,             \* self.history: a list of [fname, fargs]
    pipeline,            \* self.pipeline
    pipeline_subdir,     \* self.pipeline_subdir
    bids_suffix,         \* self.bids_suffix
    njobs,               \* self.njobs
    derivatives,         \* the directories in BIDS_dir/derivatives/
    disk,                \* the data files under BIDS_dir/derivatives/
    calls,               \* how many operations that record history ran
    invoked,             \* the operation called last and its njobs argument
    max_workers,         \* max_workers of the last ProcessPoolExecutor (0: none)
    tenetobids_snapshot, \* the keys of the last snapshot written
    raised,              \* the exception the last operation ended in ("": none)
    bad_files,           \* self.bad_files
    sidecar,             \* per file, sidecar['filestatus']['reason'] on disk
    found_files          \* what the last get_selected_files returned

bidsVars == <<history, pipeline, pipeline_subdir, bids_suffix, njobs,
              derivatives, disk, calls, invoked, max_workers,
              tenetobids_snapshot, raised, bad_files, sidecar, found_files>>

\* the worker processes of the last parallel operation
VARIABLES
    workers,             \* per submitted file, how far its worker has come
    opened               \* per submitted file, the paths its worker opened
                         \* for writing

poolVars == <<workers, opened>>

\* a TemporalNetwork object
VARIABLES
    array,               \* the dense tensor it was made from
    netshape,            \* <<N, T>>
    network,             \* self.network: the rows of the sparse table
    rebuilt,             \* the dense tensor made from the table
    held                 \* what has been made so far

netVars == <<array, netshape, network, rebuilt, held>>

vars == <<deriveVars, bidsVars, poolVars, netVars>>

\* no worker was ever started
NoPool == workers = <<>> /\ opened = <<>>

\* no TemporalNetwork object
NoNetwork ==
    /\ array = <<>>
    /\ netshape = <<0, 0>>
    /\ network = {}
    /\ rebuilt = <<>>
    /\ held = ""

\* no TenetoBIDS object: derive is called on its own
NoObject ==
    /\ history = <<>>
    /\ pipeline = ""
    /\ pipeline_subdir = ""
    /\ bids_suffix = ""
    /\ njobs = 1
    /\ derivatives = {}
    /\ disk = {}
    /\ calls = 0
    /\ invoked = <<>>
    /\ max_workers = 0
    /\ tenetobids_snapshot = {}
    /\ raised = ""
    /\ bad_files = <<>>
    /\ sidecar = <<>>
    /\ found_files = <<>>
    /\ NoPool
    /\ NoNetwork

\* ------------------------------------------------------------------ inputs
DataValues == {0, 1}

Shapes == {s \in (1..MaxT) \X (1..MaxN) : s[1] * s[2] <= MaxCells}

DataSet ==
    UNION {[0..s[1] - 1 -> [0..s[2] - 1 -> DataValues]] : s \in Shapes}

Str(name) == [kind |-> "str", name |-> name, matrix |-> NoWeights]
Mat(m) == [kind |-> "matrix", name |-> "", matrix |-> m]

WindowSizes == 0..(MaxT + 1)

Dict1(k, v) == Put(EmptyDict, k, v)
Dict2(k, v, k2, v2) == Put(Dict1(k, v), k2, v2)

\* literal weight matrices: all ones (any shape); square ones that weight the
\* time points from the row's index on, or the row's own time point negatively
LiteralMatrices ==
    {[i \in 0..r - 1 |-> [j \in 0..c - 1 |-> One]] : r, c \in 1..MaxT}
    \cup {[i \in 0..r - 1 |-> [j \in 0..r - 1 |->
              IF i <= j THEN One ELSE Zero]] : r \in 2..MaxT}
    \cup {[i \in 0..r - 1 |-> [j \in 0..r - 1 |->
              IF i = j THEN Rat(-1, 1) ELSE One]] : r \in 2..MaxT}

TaperParams == {<<-1, 2>>, <<0, 1>>}

MethodConfigs ==
    {EmptyDict, Dict1("method", Str("jackknife"))}
    \cup {Dict1("method", Str(m)) : m \in {"slidingwindow",
              "taperedslidingwindow", "temporalderivative", "distance",
              "nosuchmethod", "Jackknife"}}
    \cup {Dict2("method", Str("slidingwindow"), "windowsize", k) :
              k \in WindowSizes}
    \cup {Dict2("method", Str("sliding window"), "windowsize", 2)}
    \cup {Put(Put(Dict2("method", Str("taperedslidingwindow"), "windowsize", k),
                  "distribution", "uniform"), "distribution_params", dp) :
              k \in WindowSizes \ {0}, dp \in TaperParams}
    \cup {Put(Put(Dict2("method", Str("tapered sliding window"),
                        "windowsize", 2),
                  "distribution", d[1]), "distribution_params", d[2]) :
              d \in {<<"nosuchdist", <<0, 1>>>>, <<"uniform", <<0, 1, 2>>>>,
                     <<"uniform", <<0>>>>}}
    \cup {Dict2("method", Str(m), "distance", d) :
              m \in {"distance", "nodedistance"}, d \in DistanceNames}
    \cup {Dict2("method", Str("temporalderivative"), "windowsize", k) :
              k \in WindowSizes}
    \cup {Dict2("method", Str("temporal derivative"), "windowsize", 1)}
    \cup {Dict1("method", Mat(m)) : m \in LiteralMatrices}

OptionSets ==
    {EmptyDict,
     Put(Dict2("dimord", "node,time", "report", "no"), "postpro", "no"),
     Put(Dict2("postpro", "fisher", "report", "no"), "dimord", "time,node")}

Merge(a, b) ==
    [k \in (DOMAIN a) \cup (DOMAIN b) |-> IF k \in DOMAIN a THEN a[k] ELSE b[k]]

ParamSet == {Merge(m, o) : m \in MethodConfigs, o \in OptionSets}

Init ==
    /\ data \in DataSet
    /\ params \in ParamSet
    /\ cdata = data
    /\ pc = "start"
    /\ weights = NoWeights
    /\ relation = ""
    /\ R = NoTensor
    /\ report = EmptyDict
    /\ outcome = ""
    /\ returned = <<>>
    /\ written = <<>>
    /\ NoObject

\* ----------------------------------------------------------------- derive
WithDefault(d, k, v) == IF k \in DOMAIN d THEN d ELSE Put(d, k, v)

\* the data never transposed
Canonical_AsGiven(dat, dimord) == dat

\* lines 128-129
Canonical(dat, dimord) == IF dimord = "node,time" THEN Transpose(dat) ELSE dat

\* lines 114-129: the report, the defaults written to params, the orientation
Enter ==
    /\ pc = "start"
    /\ report' = EmptyDict
    /\ params' = WithDefault(WithDefault(WithDefault(WithDefault(params,
                     "dimord", "time,node"), "report", "yes"),
                     "analysis_id", ""), "postpro", "no")
    /\ cdata' = Canonical(data, params'["dimord"])
    /\ pc' = "dispatch"
    /\ UNCHANGED <<data, weights, relation, R, outcome, returned, written>>
    /\ UNCHANGED <<bidsVars, poolVars, netVars>>

Raise(exc) ==
    /\ pc' = "raised"
    /\ outcome' = exc

IsMethod(names) ==
    /\ "method" \in DOMAIN params
    /\ params["method"].kind = "str"
    /\ params["method"].name \in names

\* a weight function's result taken over by derive (lines 133-145)
TakeWeights(res) ==
    /\ params' = res.params
    /\ IF res.exc # ""
       THEN /\ Raise(res.exc)
            /\ UNCHANGED <<weights, relation, report>>
       ELSE /\ weights' = res.weights
            /\ report' = res.report
            /\ relation' = "weight"
            /\ pc' = "weighted"
            /\ UNCHANGED outcome
    /\ UNCHANGED <<data, cdata, R, returned, written>>
    /\ UNCHANGED <<bidsVars, poolVars, netVars>>

JackknifeNames == {"jackknife"}
SlidingWindowNames == {"sliding window", "slidingwindow"}
TaperedNames == {"tapered sliding window", "taperedslidingwindow"}
DistanceMethodNames == {"distance", "spatial distance", "node distance",
                        "nodedistance", "spatialdistance"}
TemporalDerivativeNames == {"temporal derivative", "temporalderivative"}
MethodNames == JackknifeNames \cup SlidingWindowNames \cup TaperedNames
               \cup DistanceMethodNames \cup TemporalDerivativeNames

\* line 131 with no 'method' key
MethodMissing ==
    /\ pc = "dispatch"
    /\ "method" \notin DOMAIN params
    /\ Raise("KeyError")
    /\ UNCHANGED <<data, params, cdata, weights, relation, R, report, returned,
                   written>>
    /\ UNCHANGED <<bidsVars, poolVars, netVars>>

MethodJackknife ==
    /\ pc = "dispatch"
    /\ IsMethod(JackknifeNames)
    /\ TakeWeights([weightfun_jackknife(Size(cdata), report)
                       EXCEPT !.params = params])

MethodSlidingWindow ==
    /\ pc = "dispatch"
    /\ IsMethod(SlidingWindowNames)
    /\ TakeWeights(weightfun_sliding_window(Size(cdata), params, report))

MethodTaperedSlidingWindow ==
    /\ pc = "dispatch"
    /\ IsMethod(TaperedNames)
    /\ TakeWeights(weightfun_tapered_sliding_window(Size(cdata), params, report))

MethodDistance ==
    /\ pc = "dispatch"
    /\ IsMethod(DistanceMethodNames)
    /\ TakeWeights(weightfun_spatial_distance(cdata, params, report))

MethodTemporalDerivative ==
    /\ pc = "dispatch"
    /\ IsMethod(TemporalDerivativeNames)
    /\ LET res == temporal_derivative(cdata, params, report)
       IN  IF res.exc # ""
           THEN /\ Raise(res.exc)
                /\ UNCHANGED <<R, report, relation>>
           ELSE /\ R' = res.R
                /\ report' = res.report
                /\ relation' = "coupling"
                /\ pc' = "correlated"
                /\ UNCHANGED outcome
    /\ UNCHANGED <<data, params, cdata, weights, returned, written>>
    /\ UNCHANGED <<bidsVars, poolVars, netVars>>

\* an unknown name silently handled as the jackknife
MethodUnrecognized_AsJackknife ==
    /\ pc = "dispatch"
    /\ "method" \in DOMAIN params
    /\ params["method"].kind = "str"
    /\ params["method"].name \notin MethodNames
    /\ TakeWeights([weightfun_jackknife(Size(cdata), report)
                       EXCEPT !.params = params])

\* lines 149-151
MethodUnrecognized ==
    /\ pc = "dispatch"
    /\ "method" \in DOMAIN params
    /\ params["method"].kind = "str"
    /\ params["method"].name \notin MethodNames
    /\ Raise("ValueError")
    /\ UNCHANGED <<data, params, cdata, weights, relation, R, report, returned,
                   written>>
    /\ UNCHANGED <<bidsVars, poolVars, netVars>>

\* lines 152-162: the method is a literal weight matrix
\* the check of line 161 left out
LiteralAccepted_SquareOnly(m, T) == Size(m) = Size(m[0])

LiteralAccepted(m, T) == Size(m) = Size(m[0]) /\ Size(m) = T

MethodLiteral ==
    /\ pc = "dispatch"
    /\ "method" \in DOMAIN params
    /\ params["method"].kind = "matrix"
    /\ LET m == params["method"].matrix
       IN  IF LiteralAccepted(m, Size(cdata))
           THEN /\ weights' = m
                /\ relation' = "weight"
                /\ pc' = "weighted"
                /\ UNCHANGED outcome
           ELSE /\ Raise("ValueError")
                /\ UNCHANGED <<weights, relation>>
    /\ UNCHANGED <<data, params, cdata, R, report, returned, written>>
    /\ UNCHANGED <<bidsVars, poolVars, netVars>>

\* lines 164-170
Correlate ==
    /\ pc = "weighted"
    /\ relation = "weight"
    /\ R' = WeightedCorrelation(cdata, weights)
    /\ pc' = "correlated"
    /\ UNCHANGED <<data, params, cdata, weights, relation, report, outcome,
                   returned, written>>
    /\ UNCHANGED <<bidsVars, poolVars, netVars>>

\* the sign turned for every method
SignCorrection_Always(method, X) == NegTensor(X)

\* lines 172-174.  With a literal matrix, params['method'] == 'jackknife'
\* compares an array with a string: False for a list and for numpy builds
\* that give up on the comparison, an array of False for numpy builds that
\* compare elementwise, whose truth value raises ValueError unless the array
\* has one element.
SignCorrection(method, X) ==
    IF method.kind = "str" /\ method.name = "jackknife"
    THEN NegTensor(X)
    ELSE X

CorrectJackknife ==
    /\ pc = "correlated"
    /\ \/ /\ R' = SignCorrection(params["method"], R)
          /\ pc' = "corrected"
          /\ UNCHANGED outcome
       \/ /\ params["method"].kind = "matrix"
          /\ Size(params["method"].matrix) > 1
          /\ Raise("ValueError")
          /\ UNCHANGED R
    /\ UNCHANGED <<data, params, cdata, weights, relation, report, returned,
                   written>>
    /\ UNCHANGED <<bidsVars, poolVars, netVars>>

\* lines 176-179
PostProcess ==
    /\ pc = "corrected"
    /\ IF params["postpro"] # "no"
       THEN LET res == postpro_pipeline(R, params["postpro"], report)
            IN  /\ R' = ZeroInf(res.R)
                /\ report' = res.report
       ELSE UNCHANGED <<R, report>>
    /\ pc' = "postprocessed"
    /\ UNCHANGED <<data, params, cdata, weights, relation, outcome, returned,
                   written>>
    /\ UNCHANGED <<bidsVars, poolVars, netVars>>

\* a return that generates the report whatever params['report'] says
Return_AlwaysReports ==
    /\ pc = "postprocessed"
    /\ written' = Append(written, <<"./report/", params["analysis_id"]>>)
    /\ returned' = <<"R">>
    /\ outcome' = "ok"
    /\ pc' = "returned"
    /\ UNCHANGED <<data, params, cdata, weights, relation, R, report>>
    /\ UNCHANGED <<bidsVars, poolVars, netVars>>

\* lines 181-183
Return ==
    /\ pc = "postprocessed"
    /\ written' = IF params["report"] = "yes"
                  THEN Append(written, <<"./report/", params["analysis_id"]>>)
                  ELSE written
    /\ returned' = <<"R">>
    /\ outcome' = "ok"
    /\ pc' = "returned"
    /\ UNCHANGED <<data, params, cdata, weights, relation, R, report>>
    /\ UNCHANGED <<bidsVars, poolVars, netVars>>

Next ==
    \/ Enter
    \/ MethodMissing
    \/ MethodJackknife
    \/ MethodSlidingWindow
    \/ MethodTaperedSlidingWindow
    \/ MethodDistance
    \/ MethodTemporalDerivative
    \/ MethodUnrecognized
    \/ MethodLiteral
    \/ Correlate
    \/ CorrectJackknife
    \/ PostProcess
    \/ Return

Spec == Init /\ [][Next]_vars

\* ------------------------------------------------- the stages on their own
\* The functions that take a report (weightfun_jackknife,
\* weightfun_sliding_window, weightfun_tapered_sliding_window,
\* weightfun_spatial_distance, temporal_derivative) are module-level functions
\* of derive.py: here each is called once with a report that already has
\* entries, as a caller other than derive can.
StageConfigs ==
    {c \in MethodConfigs : /\ "method" \in DOMAIN c
                           /\ c["method"].kind = "str"
                           /\ c["method"].name \in MethodNames}

StageReports ==
    {Dict1("analysis", "started"),
     Dict2("analysis", "started", "fisher", "performed")}

InitStages ==
    /\ data \in DataSet
    /\ params \in StageConfigs
    /\ cdata = data
    /\ pc = "dispatch"
    /\ weights = NoWeights
    /\ relation = ""
    /\ R = NoTensor
    /\ report \in StageReports
    /\ outcome = ""
    /\ returned = <<>>
    /\ written = <<>>
    /\ NoObject

NextStages ==
    \/ MethodJackknife
    \/ MethodSlidingWindow
    \/ MethodTaperedSlidingWindow
    \/ MethodDistance
    \/ MethodTemporalDerivative

SpecStages == InitStages /\ [][NextStages]_vars

\* =============================================================== TenetoBIDS
\* src/teneto/classes/bids.py.  The dataset: BIDS_dir/derivatives/fmriprep
\* holds one preprocessed file per subject; it has no confound files and no
\* sessions or runs.
MaxJobs == 2
MaxCalls == 6

\* 'teneto_' + teneto.__version__
TenetoPipeline == "teneto_0.4.5"

Subjects == {"01", "02"}
Tasks == {"rest", "nback"}

\* self.bids_tags once set_bids_tags() has filled in the defaults
BidsTags == [sub |-> Subjects, task |-> Tasks]

\* a data file BIDS_dir/derivatives/<pipeline>/sub-<sub>/func/<subdir>/
\* sub-<sub>_task-<task>_<suffix>.tsv
File(pl, sub, task, subdir, suffix) ==
    [pipeline |-> pl, sub |-> sub, task |-> task, subdir |-> subdir,
     suffix |-> suffix]

InputFiles == {File("fmriprep", sub, "rest", "", "preproc") : sub \in Subjects}

\* the path of a file, as the sequence of the pieces it is put together from
Path(f) ==
    <<"derivatives/", f.pipeline, "/sub-", f.sub, "/func/", f.subdir, "/",
      "sub-", f.sub, "_task-", f.task, "_", f.suffix, ".tsv">>

\* bf in i, for strings held as sequences of pieces
Contains(i, bf) ==
    \E at \in 0..(Len(i) - Len(bf)) :
        \A n \in 1..Len(bf) : i[at + n] = bf[n]

\* str.endswith(bids_suffix + '.tsv') for the suffixes of this dataset
EndsWith(suffix, ending) ==
    \/ ending = ""
    \/ ending = suffix
    \/ ending = "conn" /\ suffix = "tvcconn"

\* lines 575-582: itertools.product over the tags, one entry per combination
FileList == {<<sub, task>> : sub \in BidsTags.sub, task \in BidsTags.task}

\* lines 602-640, for one entry of file_list: the files of the subject's
\* directory that carry selected tags and the suffix and are not bad
FoundIn(entry, pl, subdir, suffix, dsk, bad) ==
    {f \in dsk : /\ f.pipeline = pl
                 /\ f.sub = entry[1]
                 /\ f.subdir = subdir
                 /\ f.sub \in BidsTags.sub
                 /\ f.task \in BidsTags.task
                 /\ EndsWith(f.suffix, suffix)
                 /\ ~\E n \in DOMAIN bad : Contains(Path(f), bad[n])}

\* found_files before line 647: a file is found once for each entry of
\* file_list that leads to its directory; counted per file
FoundCount(f, pl, subdir, suffix, dsk, bad) ==
    Cardinality({entry \in FileList :
                    f \in FoundIn(entry, pl, subdir, suffix, dsk, bad)})

\* found_files with every file listed as often as it was found
AllFound(pl, subdir, suffix, dsk, bad) ==
    [f \in {g \in dsk : FoundCount(g, pl, subdir, suffix, dsk, bad) > 0} |->
        FoundCount(f, pl, subdir, suffix, dsk, bad)]

Deduplicated_AsFound(found) == found

\* line 647: found_files = list(set(found_files))
Deduplicated(found) == [f \in DOMAIN found |-> 1]

\* get_selected_files(pipeline='pipeline'): how often each file is returned
get_selected_files(pl, subdir, suffix, dsk, bad) ==
    Deduplicated(AllFound(pl, subdir, suffix, dsk, bad))

\* ---- the history
\* lines 134-139: fargs is the caller's locals(), 'self' removed
add_history(h, fname, fargs, init) ==
    LET start == IF init = 1 THEN <<>> ELSE h
    IN  Append(start, <<fname, fargs \ {"self"}>>)

\* line 43: the parameters of __init__
ConstructorParameters ==
    {"self", "BIDS_dir", "pipeline", "pipeline_subdir", "parcellation",
     "bids_tags", "bids_suffix", "bad_subjects", "confound_pipeline",
     "raw_data_exists", "njobs", "history"}

\* lines 76-128: the attributes __init__ sets, the keys of self.__dict__
ObjectAttributes ==
    {"history", "contact", "BIDS", "BIDS_dir", "pipeline", "confound_pipeline",
     "raw_data_exists", "pipeline_subdir", "parcellation", "bids_suffix",
     "bad_subjects", "njobs", "bad_files", "confounds", "bids_tags",
     "tvc_data_", "parcellation_data_", "participent_data_",
     "temporalnetwork_data_", "fc_data_", "tvc_trialinfo_",
     "parcellation_trialinfo_", "temporalnetwork_trialinfo_", "fc_trialinfo_"}

\* locals() at the add_history call of each operation
Locals(fname) ==
    CASE fname = "__init__" -> ConstructorParameters
      [] fname = "set_pipeline" -> {"self", "pipeline"}
      [] fname = "set_pipeline_subdir" -> {"self", "pipeline_subdir"}
      [] fname = "set_bids_suffix" -> {"self", "bids_suffix"}
      [] fname = "derive_temporalnetwork" ->
            {"self", "params", "update_pipeline", "tag", "njobs",
             "confound_corr_report"}
      [] fname = "make_functional_connectivity" ->
            {"self", "njobs", "returngroup", "file_hdr", "file_idx"}

\* the njobs argument of a call: left out (<<>>) or given (<<m>>); None is
\* held as 0, which `not njobs` treats alike
NjobsArguments == {<<>>} \cup {<<m>> : m \in 0..MaxJobs}

\* the value of the parameter njobs for an argument, given the default of
\* the signature (line 168: njobs=1; line 374: njobs=None)
NjobsParameter(arg, default) == IF arg = <<>> THEN default ELSE arg[1]

\* lines 194-195, 396-397: if not njobs: njobs = self.njobs
Workers(parameter, own) == IF parameter = 0 THEN own ELSE parameter

\* no call of derive of its own is under way
NoDerive ==
    /\ data = <<>>
    /\ params = <<>>
    /\ cdata = <<>>
    /\ pc = "idle"
    /\ weights = NoWeights
    /\ relation = ""
    /\ R = NoTensor
    /\ report = EmptyDict
    /\ outcome = ""
    /\ returned = <<>>
    /\ written = <<>>

\* ---- the object after TenetoBIDS(BIDS_dir, pipeline='fmriprep',
\* bids_suffix='preproc', njobs=m), lines 75-128; njobs=None gives 1
InitObject ==
    /\ history = add_history(<<>>, "__init__", ConstructorParameters, 1)
    /\ pipeline = "fmriprep"
    /\ pipeline_subdir = ""
    /\ bids_suffix = "preproc"
    /\ \E m \in 0..MaxJobs : njobs = IF m = 0 THEN 1 ELSE m
    /\ derivatives = {"fmriprep"}
    /\ disk = InputFiles
    /\ calls = 0
    /\ invoked = <<"__init__", <<>>>>
    /\ max_workers = 0
    /\ tenetobids_snapshot = {}
    /\ raised = ""
    /\ bad_files = <<>>
    /\ sidecar = <<>>
    /\ found_files = <<>>
    /\ NoDerive
    /\ NoPool
    /\ NoNetwork

\* lines 1438-1448
set_pipeline(h, pl, dirs, p) ==
    [history |-> add_history(h, "set_pipeline", Locals("set_pipeline"), 1),
     pipeline |-> IF p \in dirs THEN p ELSE pl]

SetPipeline(p) ==
    /\ calls < MaxCalls
    /\ LET res == set_pipeline(history, pipeline, derivatives, p)
       IN  /\ history' = res.history
           /\ pipeline' = res.pipeline
    /\ calls' = calls + 1
    /\ invoked' = <<"set_pipeline", <<>>>>
    /\ raised' = ""
    /\ UNCHANGED <<pipeline_subdir, bids_suffix, njobs, derivatives, disk,
                   max_workers, tenetobids_snapshot, bad_files, sidecar,
                   found_files>>
    /\ UNCHANGED <<deriveVars, poolVars, netVars>>

\* lines 1450-1457
SetPipelineSubdir(d) ==
    /\ calls < MaxCalls
    /\ history' = add_history(history, "set_pipeline_subdir",
                              Locals("set_pipeline_subdir"), 1)
    /\ pipeline_subdir' = d
    /\ calls' = calls + 1
    /\ invoked' = <<"set_pipeline_subdir", <<>>>>
    /\ raised' = ""
    /\ UNCHANGED <<pipeline, bids_suffix, njobs, derivatives, disk,
                   max_workers, tenetobids_snapshot, bad_files, sidecar,
                   found_files>>
    /\ UNCHANGED <<deriveVars, poolVars, netVars>>

\* lines 1431-1436
SetBidsSuffix(x) ==
    /\ calls < MaxCalls
    /\ history' = add_history(history, "set_bids_suffix",
                              Locals("set_bids_suffix"), 1)
    /\ bids_suffix' = x
    /\ calls' = calls + 1
    /\ invoked' = <<"set_bids_suffix", <<>>>>
    /\ raised' = ""
    /\ UNCHANGED <<pipeline, pipeline_subdir, njobs, derivatives, disk,
                   max_workers, tenetobids_snapshot, bad_files, sidecar,
                   found_files>>
    /\ UNCHANGED <<deriveVars, poolVars, netVars>>

\* lines 1810-1840: the keys come from the first entry of the history, the
\* values from self.__dict__ (KeyError for a key that is no attribute)
SaveTenetobidsSnapshot ==
    /\ LET tenetobids_init == history[1][2]
       IN  IF tenetobids_init \subseteq ObjectAttributes
           THEN /\ tenetobids_snapshot' = tenetobids_init
                /\ raised' = ""
           ELSE /\ raised' = "KeyError"
                /\ UNCHANGED tenetobids_snapshot
    /\ invoked' = <<"save_tenetobids_snapshot", <<>>>>
    /\ UNCHANGED <<history, pipeline, pipeline_subdir, bids_suffix, njobs,
                   derivatives, disk, calls, max_workers, bad_files, sidecar,
                   found_files>>
    /\ UNCHANGED <<deriveVars, poolVars, netVars>>

\* ---- the parallel operations
\* the selected files, each once
SelectedFiles ==
    DOMAIN get_selected_files(pipeline, pipeline_subdir, bids_suffix, disk,
                              bad_files)

\* lines 284-286, 413-415, 421-467: where the output for input file f goes
SavedFile(f, save_directory, suffix) ==
    File(TenetoPipeline, f.sub, f.task, save_directory, suffix)

\* lines 168-276.  `done` are the files whose worker ran to its end; when a
\* worker raises, j.result() raises it again and the operation ends there.
\* A worker makes its output directory before it writes (line 464).
DeriveTemporalnetwork(arg, update_pipeline) ==
    /\ calls + 4 <= MaxCalls
    /\ LET parameter == NjobsParameter(arg, 1)
           files == SelectedFiles
           h == add_history(history, "derive_temporalnetwork",
                            Locals("derive_temporalnetwork"), 1)
       IN  /\ max_workers' = Workers(parameter, njobs)
           /\ invoked' = <<"derive_temporalnetwork", arg>>
           /\ \E done \in SUBSET files :
                 LET dirs == IF files = {} THEN derivatives
                             ELSE derivatives \cup {TenetoPipeline}
                     set == set_pipeline(h, pipeline, dirs, TenetoPipeline)
                 IN  /\ disk' = disk \cup
                                  {SavedFile(f, "tvc", "tvcconn") : f \in done}
                     /\ derivatives' = dirs
                     /\ IF done # files
                        THEN /\ raised' = "ValueError"
                             /\ history' = h
                             /\ calls' = calls + 1
                             /\ UNCHANGED <<pipeline, pipeline_subdir,
                                            bids_suffix>>
                        ELSE IF update_pipeline
                        THEN /\ raised' = ""
                             /\ pipeline' = set.pipeline
                             /\ pipeline_subdir' = "tvc"
                             /\ bids_suffix' = "tvcconn"
                             /\ history' =
                                   add_history(
                                       add_history(set.history,
                                           "set_pipeline_subdir",
                                           Locals("set_pipeline_subdir"), 1),
                                       "set_bids_suffix",
                                       Locals("set_bids_suffix"), 1)
                             /\ calls' = calls + 4
                        ELSE /\ raised' = ""
                             /\ history' = h
                             /\ calls' = calls + 1
                             /\ UNCHANGED <<pipeline, pipeline_subdir,
                                            bids_suffix>>
    /\ UNCHANGED <<njobs, tenetobids_snapshot, bad_files, sidecar, found_files>>
    /\ UNCHANGED <<deriveVars, poolVars, netVars>>

\* lines 374-419
MakeFunctionalConnectivity(arg) ==
    /\ calls < MaxCalls
    /\ LET parameter == NjobsParameter(arg, 0)
           files == SelectedFiles
       IN  /\ max_workers' = Workers(parameter, njobs)
           /\ disk' = disk \cup {SavedFile(f, "fc", "conn") : f \in files}
           /\ derivatives' = IF files = {} THEN derivatives
                             ELSE derivatives \cup {TenetoPipeline}
    /\ history' = add_history(history, "make_functional_connectivity",
                              Locals("make_functional_connectivity"), 1)
    /\ calls' = calls + 1
    /\ invoked' = <<"make_functional_connectivity", arg>>
    /\ raised' = ""
    /\ UNCHANGED <<pipeline, pipeline_subdir, bids_suffix, njobs,
                   tenetobids_snapshot, bad_files, sidecar, found_files>>
    /\ UNCHANGED <<deriveVars, poolVars, netVars>>

NextObject ==
    \/ \E p \in {"fmriprep", TenetoPipeline} : SetPipeline(p)
    \/ \E d \in {"", "tvc"} : SetPipelineSubdir(d)
    \/ \E x \in {"preproc", "tvcconn"} : SetBidsSuffix(x)
    \/ SaveTenetobidsSnapshot
    \/ \E arg \in NjobsArguments : \E update_pipeline \in BOOLEAN :
           DeriveTemporalnetwork(arg, update_pipeline)
    \/ \E arg \in NjobsArguments : MakeFunctionalConnectivity(arg)

SpecObject == InitObject /\ [][NextObject]_vars

\* ---- bad files
MaxBad == 3
MaxReasons == 2

\* the strings handed to set_bad_files: the path of a data file (subject
\* 02's), or a piece of one ('sub-01'), which get_selected_files matches as a
\* substring
BadFileCandidates ==
    {Path(File("fmriprep", "02", "rest", "", "preproc")), <<"sub-", "01">>}

\* the lists of them of up to two entries
BadFileLists ==
    {<<>>} \cup {<<f>> : f \in BadFileCandidates}
           \cup {<<f, g>> : f \in BadFileCandidates, g \in BadFileCandidates}

\* sidecar['filestatus']['reason'] of the JSON sidecar next to f, as lines
\* 1306-1310 wrote it
get_sidecar(f, sc) == sc[f]

\* list.remove(x): the first occurrence goes
Remove(s, x) ==
    LET at == CHOOSE n \in DOMAIN s : s[n] = x /\ \A m \in 1..(n - 1) : s[m] # x
    IN  [n \in 1..(Len(s) - 1) |-> IF n < at THEN s[n] ELSE s[n + 1]]

\* lines 1293-1310: the loop over bad_files from entry `at` on; each sidecar
\* is written back before the next file is turned to, so a raise leaves the
\* earlier ones changed
RECURSIVE UpdateSidecars(_, _, _, _, _)
UpdateSidecars(F, at, reason, oops, sc) ==
    IF at > Len(F) THEN [sidecar |-> sc, raised |-> ""]
    ELSE LET f == F[at]
             reasons == get_sidecar(f, sc)
         IN  IF ~oops
             THEN UpdateSidecars(F, at + 1, reason, oops,
                      [sc EXCEPT ![f] = Append(reasons, reason)])
             ELSE IF reason = "last"
             THEN IF reasons = <<>>
                  THEN [sidecar |-> sc, raised |-> "IndexError"]
                  ELSE UpdateSidecars(F, at + 1, reason, oops,
                           [sc EXCEPT ![f] =
                               Remove(reasons, reasons[Len(reasons)])])
             ELSE IF \A n \in DOMAIN reasons : reasons[n] # reason
                  THEN [sidecar |-> sc, raised |-> "ValueError"]
                  ELSE UpdateSidecars(F, at + 1, reason, oops,
                           [sc EXCEPT ![f] = Remove(reasons, reason)])

\* lines 1314-1320: the new value of self.bad_files
UpdateBadFiles(own, F, oops) ==
    IF own = <<>> /\ ~oops THEN F
    ELSE IF own # <<>> /\ oops
    THEN SelectSeq(own, LAMBDA bf : \A n \in DOMAIN F : F[n] # bf)
    ELSE own \o F

\* the object after TenetoBIDS(BIDS_dir, pipeline='fmriprep',
\* bids_suffix='preproc') on a dataset whose sidecars may carry a rejection
\* from an earlier session: line 112 starts bad_files empty whatever they say
InitBadFiles ==
    /\ history = add_history(<<>>, "__init__", ConstructorParameters, 1)
    /\ pipeline = "fmriprep"
    /\ pipeline_subdir = ""
    /\ bids_suffix = "preproc"
    /\ njobs = 1
    /\ derivatives = {"fmriprep"}
    /\ disk = InputFiles
    /\ calls = 0
    /\ invoked = <<"__init__", <<>>>>
    /\ max_workers = 0
    /\ tenetobids_snapshot = {}
    /\ raised = ""
    /\ bad_files = <<>>
    /\ sidecar \in [BadFileCandidates -> {<<>>, <<"Manual">>}]
    /\ found_files = <<>>
    /\ NoDerive
    /\ NoPool
    /\ NoNetwork

\* lines 1288-1320
SetBadFiles(F, reason, oops) ==
    /\ ~oops => /\ Len(bad_files) + Len(F) <= MaxBad
                /\ \A n \in DOMAIN F :
                      Len(sidecar[F[n]])
                          + Cardinality({m \in DOMAIN F : F[m] = F[n]})
                        <= MaxReasons
    /\ LET res == UpdateSidecars(F, 1, reason, oops, sidecar)
       IN  /\ sidecar' = res.sidecar
           /\ raised' = res.raised
           /\ bad_files' = IF res.raised = ""
                           THEN UpdateBadFiles(bad_files, F, oops)
                           ELSE bad_files
    /\ invoked' = <<"set_bad_files", <<F, reason, oops>>>>
    /\ UNCHANGED <<history, pipeline, pipeline_subdir, bids_suffix, njobs,
                   derivatives, disk, calls, max_workers, tenetobids_snapshot,
                   found_files>>
    /\ UNCHANGED <<deriveVars, poolVars, netVars>>

\* lines 541-650, get_selected_files(quiet=1)
GetSelectedFiles ==
    /\ found_files' = get_selected_files(pipeline, pipeline_subdir,
                                         bids_suffix, disk, bad_files)
    /\ invoked' = <<"get_selected_files", <<>>>>
    /\ raised' = ""
    /\ UNCHANGED <<history, pipeline, pipeline_subdir, bids_suffix, njobs,
                   derivatives, disk, calls, max_workers, tenetobids_snapshot,
                   bad_files, sidecar>>
    /\ UNCHANGED <<deriveVars, poolVars, netVars>>

NextBadFiles ==
    \/ \E F \in BadFileLists : SetBadFiles(F, "Manual", FALSE)
    \/ \E F \in BadFileLists : \E reason \in {"Manual", "last"} :
           SetBadFiles(F, reason, TRUE)
    \/ GetSelectedFiles

SpecBadFiles == InitBadFiles /\ [][NextBadFiles]_vars

\* ---- the workers of derive_temporalnetwork
\* BIDS_dir/derivatives/teneto_<version>/dataset_description.json (line 465)
DatasetDescription ==
    <<"derivatives/", TenetoPipeline, "/dataset_description.json">>

\* save_dir + save_name + '.tsv' (line 316) for input file f
TsvPath(f) == Path(SavedFile(f, "tvc", "tvcconn"))

\* save_dir + save_name + '.json' (line 328) for input file f
JsonPath(f) == [TsvPath(f) EXCEPT ![Len(TsvPath(f))] = ".json"]

\* a worker process is at work on its file
Running(stage) == stage \in {"started", "named", "saved"}

\* the object as InitObject leaves it
InitPool ==
    /\ history = add_history(<<>>, "__init__", ConstructorParameters, 1)
    /\ pipeline = "fmriprep"
    /\ pipeline_subdir = ""
    /\ bids_suffix = "preproc"
    /\ \E m \in 0..MaxJobs : njobs = IF m = 0 THEN 1 ELSE m
    /\ derivatives = {"fmriprep"}
    /\ disk = InputFiles
    /\ calls = 0
    /\ invoked = <<"__init__", <<>>>>
    /\ max_workers = 0
    /\ tenetobids_snapshot = {}
    /\ raised = ""
    /\ bad_files \in {<<>>, <<<<"sub-", "01">>>>}
    /\ sidecar = <<>>
    /\ found_files = <<>>
    /\ NoDerive
    /\ NoPool
    /\ NoNetwork

\* lines 194-214: derive_temporalnetwork up to the submission of the jobs
Submit(arg) ==
    /\ invoked[1] = "__init__"
    /\ max_workers' = Workers(NjobsParameter(arg, 1), njobs)
    /\ history' = add_history(history, "derive_temporalnetwork",
                              Locals("derive_temporalnetwork"), 1)
    /\ calls' = calls + 1
    /\ invoked' = <<"derive_temporalnetwork", arg>>
    /\ workers' = [f \in SelectedFiles |-> "queued"]
    /\ opened' = [f \in SelectedFiles |-> {}]
    /\ UNCHANGED <<pipeline, pipeline_subdir, bids_suffix, njobs, derivatives,
                   disk, tenetobids_snapshot, raised, bad_files, sidecar,
                   found_files>>
    /\ UNCHANGED <<deriveVars, netVars>>

\* a process of the pool takes a job when it is free: at most max_workers
\* jobs are at work; line 282 loads the file
WorkerStart(f) ==
    /\ f \in DOMAIN workers
    /\ workers[f] = "queued"
    /\ Cardinality({g \in DOMAIN workers : Running(workers[g])}) < max_workers
    /\ workers' = [workers EXCEPT ![f] = "started"]
    /\ UNCHANGED <<bidsVars, opened, deriveVars, netVars>>

\* lines 284-286 and 421-467: _save_namepaths_bids_derivatives makes the
\* output directory and writes dataset_description.json
WorkerSaveNamepaths(f) ==
    /\ f \in DOMAIN workers
    /\ workers[f] = "started"
    /\ workers' = [workers EXCEPT ![f] = "named"]
    /\ opened' = [opened EXCEPT ![f] = @ \cup {DatasetDescription}]
    /\ derivatives' = derivatives \cup {TenetoPipeline}
    /\ UNCHANGED <<history, pipeline, pipeline_subdir, bids_suffix, njobs,
                   disk, calls, invoked, max_workers, tenetobids_snapshot,
                   raised, bad_files, sidecar, found_files>>
    /\ UNCHANGED <<deriveVars, netVars>>

\* lines 288-316: the network is derived and written to the .tsv file
WorkerSaveNetwork(f) ==
    /\ f \in DOMAIN workers
    /\ workers[f] = "named"
    /\ workers' = [workers EXCEPT ![f] = "saved"]
    /\ opened' = [opened EXCEPT ![f] = @ \cup {TsvPath(f)}]
    /\ disk' = disk \cup {SavedFile(f, "tvc", "tvcconn")}
    /\ UNCHANGED <<history, pipeline, pipeline_subdir, bids_suffix, njobs,
                   derivatives, calls, invoked, max_workers,
                   tenetobids_snapshot, raised, bad_files, sidecar,
                   found_files>>
    /\ UNCHANGED <<deriveVars, netVars>>

\* lines 318-329: the sidecar is written, the job is done
WorkerSaveSidecar(f) ==
    /\ f \in DOMAIN workers
    /\ workers[f] = "saved"
    /\ workers' = [workers EXCEPT ![f] = "done"]
    /\ opened' = [opened EXCEPT ![f] = @ \cup {JsonPath(f)}]
    /\ UNCHANGED <<bidsVars, deriveVars, netVars>>

\* lines 215-216 and 271-276: every job has come back; update_pipeline=True
Collect ==
    /\ invoked[1] = "derive_temporalnetwork"
    /\ calls = 1
    /\ \A f \in DOMAIN workers : workers[f] = "done"
    /\ LET set == set_pipeline(history, pipeline, derivatives, TenetoPipeline)
       IN  /\ pipeline' = set.pipeline
           /\ history' =
                 add_history(
                     add_history(set.history, "set_pipeline_subdir",
                                 Locals("set_pipeline_subdir"), 1),
                     "set_bids_suffix", Locals("set_bids_suffix"), 1)
    /\ pipeline_subdir' = "tvc"
    /\ bids_suffix' = "tvcconn"
    /\ calls' = calls + 3
    /\ UNCHANGED <<njobs, derivatives, disk, invoked, max_workers,
                   tenetobids_snapshot, raised, bad_files, sidecar,
                   found_files>>
    /\ UNCHANGED <<deriveVars, poolVars, netVars>>

NextPool ==
    \/ \E arg \in NjobsArguments : Submit(arg)
    \/ \E f \in InputFiles : WorkerStart(f)
    \/ \E f \in InputFiles : WorkerSaveNamepaths(f)
    \/ \E f \in InputFiles : WorkerSaveNetwork(f)
    \/ \E f \in InputFiles : WorkerSaveSidecar(f)
    \/ Collect

SpecPool == InitPool /\ [][NextPool]_vars

\* ---- TemporalNetwork (teneto/classes/network.py): the dense tensor and
\* the sparse table of rows (i, j, t, weight)
\* weights below, at and above the threshold 0
NetValues == {-1, 0, 1}

\* <<N, T>>: the nodes and the time points of the tensors wrapped
NetShapes ==
    {s \in (2..MaxN) \X (1..MaxT) : s[1] * s[1] * s[2] <= 2 * MaxCells}

\* the index triples of an N x N x T tensor
Cells(shape) ==
    (0..shape[1] - 1) \X (0..shape[1] - 1) \X (0..shape[2] - 1)

\* the symmetric tensor with the given entries on and above the diagonal,
\* as derive returns it for an undirected measure
Mirror(upper, shape) ==
    [c \in Cells(shape) |->
        IF c[1] <= c[2] THEN upper[c] ELSE upper[<<c[2], c[1], c[3]>>]]

\* to_sparse(threshold) of an undirected network: a row for every entry
\* above the diagonal whose value is above the threshold
to_sparse(dense, shape, threshold) ==
    {[i |-> c[1], j |-> c[2], t |-> c[3], weight |-> dense[c]] :
        c \in {e \in Cells(shape) : e[1] < e[2] /\ dense[e] > threshold}}

to_dense_UpperOnly(table, shape) ==
    [c \in Cells(shape) |->
        LET rows == {r \in table : r.i = c[1] /\ r.j = c[2] /\ r.t = c[3]}
        IN  IF rows # {} THEN (CHOOSE r \in rows : TRUE).weight ELSE 0]

\* to_dense() of an undirected network: every row fills its cell and the
\* mirrored one; the diagonal and the cells no row names are zero
to_dense(table, shape) ==
    [c \in Cells(shape) |->
        LET above == IF c[1] <= c[2] THEN c ELSE <<c[2], c[1], c[3]>>
            rows == {r \in table : /\ r.i = above[1]
                                   /\ r.j = above[2]
                                   /\ r.t = above[3]}
        IN  IF c[1] # c[2] /\ rows # {}
            THEN (CHOOSE r \in rows : TRUE).weight
            ELSE 0]

\* a symmetric tensor dfc has come back from derive in a worker
InitNetwork ==
    /\ \E shape \in NetShapes :
       \E upper \in [{c \in Cells(shape) : c[1] <= c[2]} -> NetValues] :
          /\ netshape = shape
          /\ array = Mirror(upper, shape)
    /\ network = {}
    /\ rebuilt = <<>>
    /\ held = "dense"
    /\ NoDerive
    /\ NoPool
    /\ history = <<>>
    /\ pipeline = ""
    /\ pipeline_subdir = ""
    /\ bids_suffix = ""
    /\ njobs = 1
    /\ derivatives = {}
    /\ disk = {}
    /\ calls = 0
    /\ invoked = <<>>
    /\ max_workers = 0
    /\ tenetobids_snapshot = {}
    /\ raised = ""
    /\ bad_files = <<>>
    /\ sidecar = <<>>
    /\ found_files = <<>>

\* lines 314-316: TemporalNetwork(from_array=dfc, nettype='wu',
\* forcesparse=True), whose table is written to the .tsv file
FromArray ==
    /\ held = "dense"
    /\ network' = to_sparse(array, netshape, 0)
    /\ held' = "sparse"
    /\ UNCHANGED <<array, netshape, rebuilt>>
    /\ UNCHANGED <<deriveVars, bidsVars, poolVars>>

\* lines 225-226: TemporalNetwork(from_df=data).df_to_array() on the table
\* read back from the .tsv file
DfToArray ==
    /\ held = "sparse"
    /\ rebuilt' = to_dense(network, netshape)
    /\ held' = "rebuilt"
    /\ UNCHANGED <<array, netshape, network>>
    /\ UNCHANGED <<deriveVars, bidsVars, poolVars>>

NextNetwork == FromArray \/ DfToArray

SpecNetwork == InitNetwork /\ [][NextNetwork]_vars

\* ================================================================== claims
T_ == Size(cdata)
N_ == Size(cdata[0])

\* derive has built (or taken) a weight matrix
Weighted == relation = "weight"

WindowSize == params["windowsize"]

\* ---- C1
\* C1: for every T >= 1 the weight matrix built for method 'jackknife' is
\* T x T, with entry [i][j] = 0 when i = j and 1 when i # j.
C1_JackknifeWeights ==
    (IsMethod({"jackknife"}) /\ Weighted) =>
        /\ DOMAIN weights = 0..T_ - 1
        /\ \A i \in 0..T_ - 1 :
              /\ DOMAIN weights[i] = 0..T_ - 1
              /\ \A j \in 0..T_ - 1 :
                    weights[i][j] = IF i = j THEN Zero ELSE One

C1_Witness ==
    /\ IsMethod({"jackknife"})
    /\ Weighted
    /\ T_ = MaxT
    /\ pc = "weighted"

\* ---- C2
\* C2: for 1 <= k <= T the 'slidingwindow' weight matrix has exactly T-k+1
\* rows of length T, and row i is 1 exactly at columns i..i+k-1 and 0
\* elsewhere: the ones of row i start at i and no row wraps around.
C2_SlidingWindowRows ==
    (/\ IsMethod({"slidingwindow", "sliding window"})
     /\ Weighted
     /\ 1 <= WindowSize /\ WindowSize <= T_) =>
        /\ DOMAIN weights = 0..(T_ - WindowSize)
        /\ \A i \in 0..(T_ - WindowSize) :
              /\ DOMAIN weights[i] = 0..T_ - 1
              /\ \A j \in 0..T_ - 1 :
                    weights[i][j] =
                        IF i <= j /\ j <= i + WindowSize - 1 THEN One ELSE Zero

C2_Witness ==
    /\ IsMethod({"slidingwindow", "sliding window"})
    /\ pc = "weighted"
    /\ WindowSize = 2
    /\ T_ = MaxT
    /\ Size(weights) = MaxT - 1

\* ---- C3
\* the exceptions through which derive surfaces a configuration error
ConfigurationError == {"ValueError", "KeyError", "AttributeError", "TypeError"}

\* C3: with method 'slidingwindow' and a window size k > T, or no
\* 'windowsize' at all, derive ends in a configuration error: it builds no
\* weight matrix, computes no tensor and returns nothing.
C3_WindowTooLargeOrAbsent ==
    (/\ IsMethod({"slidingwindow", "sliding window"})
     /\ pc # "start"
     /\ ("windowsize" \notin DOMAIN params \/ WindowSize > T_)) =>
        /\ pc \in {"dispatch", "raised"}
        /\ pc = "raised" => outcome \in ConfigurationError
        /\ weights = NoWeights
        /\ relation = ""
        /\ R = NoTensor
        /\ returned = <<>>

C3_Witness ==
    /\ IsMethod({"slidingwindow", "sliding window"})
    /\ "windowsize" \in DOMAIN params
    /\ WindowSize > T_
    /\ pc = "raised"
    /\ outcome = "ValueError"
    /\ weights = NoWeights

\* ---- C4
\* C4: the sign correction multiplies every entry of the raw tensor by -1 for
\* method 'jackknife' and changes no entry for any other method (sliding
\* window, tapered sliding window, distance, temporal derivative, literal
\* matrix); without post-processing that is the tensor derive returns.
C4_SignCorrection ==
    [][/\ (pc = "correlated" /\ pc' = "corrected") =>
             \A i \in DOMAIN R : \A j \in DOMAIN R[i] : \A w \in DOMAIN R[i][j] :
                 R'[i][j][w] =
                     IF params["method"].kind = "str"
                        /\ params["method"].name = "jackknife"
                     THEN [R[i][j][w] EXCEPT !.s = -R[i][j][w].s]
                     ELSE R[i][j][w]
       /\ (pc = "correlated" /\ pc' = "corrected") =>
             /\ DOMAIN R' = DOMAIN R
             /\ \A i \in DOMAIN R :
                   /\ DOMAIN R'[i] = DOMAIN R[i]
                   /\ \A j \in DOMAIN R[i] : DOMAIN R'[i][j] = DOMAIN R[i][j]
       /\ (pc \in {"corrected", "postprocessed"} /\ params["postpro"] = "no") =>
             R' = R]_vars

C4_Witness ==
    /\ IsMethod({"jackknife"})
    /\ pc = "returned"
    /\ params["postpro"] = "no"
    /\ \E i \in DOMAIN R : \E w \in DOMAIN R[i][i] :
           R[i][i][w] = [f |-> "id", s |-> -1, n |-> 1, d |-> 1]

\* ---- C5
\* C5: for every weight-based method the tensor for T x N data and a weight
\* matrix with W rows has shape (N, N, W), slice w being the N x N correlation
\* matrix computed with weight row w; W = T for jackknife and T-k+1 for the
\* sliding window.
C5_TensorShape ==
    (Weighted /\ pc \in {"correlated", "corrected", "postprocessed", "returned"}) =>
        /\ DOMAIN R = 0..N_ - 1
        /\ \A i \in 0..N_ - 1 :
              /\ DOMAIN R[i] = 0..N_ - 1
              /\ \A j \in 0..N_ - 1 : DOMAIN R[i][j] = DOMAIN weights
        /\ IsMethod({"jackknife"}) => Size(weights) = T_
        /\ IsMethod({"slidingwindow", "sliding window"}) =>
              Size(weights) = T_ - WindowSize + 1
        /\ pc = "correlated" =>
              \A w \in DOMAIN weights : \A i, j \in 0..N_ - 1 :
                  R[i][j][w] = corrcoef(cdata, weights[w])[i][j]

C5_Witness ==
    /\ IsMethod({"slidingwindow", "sliding window"})
    /\ pc = "returned"
    /\ N_ = 2
    /\ T_ = MaxT
    /\ WindowSize = 2
    /\ Size(R[0][1]) = MaxT - 1
    /\ R[0][1][0] # R[0][1][1]

\* ---- C6
DistanceAliases == {"distance", "spatial distance", "node distance",
                    "nodedistance", "spatialdistance"}

OffDiagonal(n) == {p \in (0..n - 1) \X (0..n - 1) : p[1] # p[2]}

\* the number of positions at which two vectors differ
Differ(u, v) == Cardinality({i \in DOMAIN u : u[i] # v[i]})

\* node n's full time course in the canonical data
TimeCourse(n) == [t \in 0..T_ - 1 |-> cdata[t][n]]

\* C6 as stated: for method 'distance' on T x N data with T # N the weight
\* matrix is N x N and its entry [a][b] comes from the distance between the
\* time courses of nodes a and b.
C6_NodeByNode ==
    (IsMethod(DistanceAliases) /\ Weighted /\ T_ # N_) =>
        /\ DOMAIN weights = 0..N_ - 1
        /\ \A a \in 0..N_ - 1 : DOMAIN weights[a] = 0..N_ - 1
        /\ \A p, q \in OffDiagonal(N_) :
              (/\ ~IsNaN(weights[p[1]][p[2]])
               /\ ~IsNaN(weights[q[1]][q[2]])
               /\ Differ(TimeCourse(p[1]), TimeCourse(p[2]))
                     <= Differ(TimeCourse(q[1]), TimeCourse(q[2]))) =>
                  XLeq(weights[q[1]][q[2]], weights[p[1]][p[2]])

\* C6 amended: for method 'distance' on T x N data the weight matrix is
\* T x T, and its entry [a][b] comes from the distance between the N-node
\* vectors at time points a and b: among the entries that are numbers, a
\* smaller distance between the two time points never gives a smaller weight.
C6_TimeByTime ==
    (IsMethod(DistanceAliases) /\ Weighted) =>
        /\ DOMAIN weights = 0..T_ - 1
        /\ \A a \in 0..T_ - 1 : DOMAIN weights[a] = 0..T_ - 1
        /\ \A p, q \in OffDiagonal(T_) :
              (/\ ~IsNaN(weights[p[1]][p[2]])
               /\ ~IsNaN(weights[q[1]][q[2]])
               /\ Differ(cdata[p[1]], cdata[p[2]])
                     <= Differ(cdata[q[1]], cdata[q[2]])) =>
                  XLeq(weights[q[1]][q[2]], weights[p[1]][p[2]])

C6_Witness ==
    /\ IsMethod(DistanceAliases)
    /\ Weighted
    /\ T_ = 3
    /\ N_ = 2
    /\ weights[0][1] = One
    /\ weights[0][2] = Zero

\* ---- C7
\* C7: for method 'distance' every diagonal entry of the weight matrix is
\* exactly 1 for every data matrix, also when all pairwise distances are
\* equal or two compared series are identical.
C7_DistanceDiagonal ==
    (IsMethod(DistanceAliases) /\ Weighted) =>
        \A a \in DOMAIN weights : weights[a][a] = One

C7_Witness ==
    /\ IsMethod(DistanceAliases)
    /\ Weighted
    /\ T_ >= 2
    /\ \A p \in OffDiagonal(T_) : IsNaN(weights[p[1]][p[2]])
    /\ \A a \in DOMAIN weights : weights[a][a] = One

\* ---- C8
\* C8: for method 'distance' every off-diagonal entry of the weight matrix
\* lies in [0,1] for every data matrix, also with two identical series
\* (distance 0) and with all off-diagonal distances equal.
C8_DistanceOffDiagonalInUnitInterval ==
    (IsMethod(DistanceAliases) /\ Weighted) =>
        \A p \in OffDiagonal(Size(weights)) :
            /\ IsFinite(weights[p[1]][p[2]])
            /\ XLeq(Zero, weights[p[1]][p[2]])
            /\ XLeq(weights[p[1]][p[2]], One)

\* ---- C9
LiteralMethod == "method" \in DOMAIN params /\ params["method"].kind = "matrix"

\* C9: with a literal weight matrix, derive ends in a configuration error and
\* computes no correlation when the matrix is not square or its dimension
\* differs from the number T of time points of the canonical data; it goes on
\* to the correlation only with a T x T matrix.
C9_LiteralMatrixChecked ==
    (LiteralMethod /\ pc \notin {"start", "dispatch"}) =>
        LET m == params["method"].matrix
        IN  IF Size(m) = T_ /\ \A i \in DOMAIN m : Size(m[i]) = T_
            THEN Weighted /\ weights = m
            ELSE /\ pc = "raised"
                 /\ outcome = "ValueError"
                 /\ relation = ""
                 /\ R = NoTensor
                 /\ returned = <<>>

C9_Witness ==
    /\ LiteralMethod
    /\ pc = "raised"
    /\ outcome = "ValueError"
    /\ Size(params["method"].matrix) = Size(params["method"].matrix[0])
    /\ Size(params["method"].matrix) # T_
    /\ R = NoTensor

\* ---- C10
\* the method names and aliases derive documents and dispatches on
RecognizedMethods ==
    {"jackknife", "sliding window", "slidingwindow", "tapered sliding window",
     "taperedslidingwindow", "distance", "spatial distance", "node distance",
     "nodedistance", "spatialdistance", "temporal derivative",
     "temporalderivative"}

UnknownMethod ==
    /\ "method" \in DOMAIN params
    /\ params["method"].kind = "str"
    /\ params["method"].name \notin RecognizedMethods

\* C10: for every string 'method' that is no recognized name or alias derive
\* surfaces a configuration error: no tensor is returned, no post-processing
\* is run and no report is generated.
C10_UnknownMethodRaises ==
    (UnknownMethod /\ pc \notin {"start", "dispatch"}) =>
        /\ pc = "raised"
        /\ outcome = "ValueError"
        /\ R = NoTensor
        /\ weights = NoWeights
        /\ returned = <<>>
        /\ report = EmptyDict
        /\ written = <<>>

C10_Witness ==
    /\ UnknownMethod
    /\ params["method"].name = "Jackknife"
    /\ pc = "raised"
    /\ outcome = "ValueError"
    /\ returned = <<>>

\* ---- C11
TemporalDerivativeAliases == {"temporal derivative", "temporalderivative"}

\* derive has taken its tensor from temporal_derivative
Coupled == relation = "coupling"

\* C11: for T x N data and a window size k with 1 <= k <= T-1 the tensor of
\* temporal_derivative has shape (N, N, T-k): its depth is the number of
\* windows of k values in the T-1 differences, (T-1)-k+1.
C11_TemporalDerivativeShape ==
    (/\ IsMethod(TemporalDerivativeAliases)
     /\ Coupled
     /\ 1 <= WindowSize /\ WindowSize <= T_ - 1) =>
        /\ DOMAIN R = 0..N_ - 1
        /\ \A i \in 0..N_ - 1 :
              /\ DOMAIN R[i] = 0..N_ - 1
              /\ \A j \in 0..N_ - 1 :
                    /\ DOMAIN R[i][j] = 0..(T_ - WindowSize - 1)
                    /\ Size(R[i][j]) = (T_ - 1) - WindowSize + 1

C11_Witness ==
    /\ IsMethod(TemporalDerivativeAliases)
    /\ pc = "returned"
    /\ T_ = MaxT
    /\ N_ = 2
    /\ WindowSize = 1
    /\ Size(R[0][1]) = MaxT - 1

\* ---- C12
\* C12: with a window size k greater than the number T-1 of differences
\* (k = T included) temporal_derivative ends in a configuration error and
\* hands back no tensor, never one of depth 0.
C12_WindowBeyondDifferences ==
    (/\ IsMethod(TemporalDerivativeAliases)
     /\ pc # "start"
     /\ "windowsize" \in DOMAIN params
     /\ WindowSize > T_ - 1) =>
        /\ pc \in {"dispatch", "raised"}
        /\ pc = "raised" => outcome \in ConfigurationError
        /\ R = NoTensor
        /\ returned = <<>>

\* ---- C13
\* the first difference of node n at step t, from the canonical data
Delta(n, t) == cdata[t + 1][n] - cdata[t][n]

\* (T-1)^2 times the population variance of the differences of node n
ScaledVariance(n) ==
    LET L == T_ - 1
        d == [t \in 0..L - 1 |-> Delta(n, t)]
    IN  L * SumV([t \in 0..L - 1 |-> d[t] * d[t]]) - SumV(d) * SumV(d)

\* the sum over t = w..w+k-1 of the products of the differences of i and j
WindowProduct(i, j, w, k) ==
    SumV([t \in 0..k - 1 |-> Delta(i, w + t) * Delta(j, w + t)])

\* C13: for 1 <= k <= T-1, every pair (i, j) and every w in 0..T-1-k, entry
\* [i][j][w] is the mean over t = w..w+k-1 of d_i[t] * d_j[t], d_n being the
\* differences of node n divided by their population standard deviation
\* (so the entry has the sign of the window's sum of products and its square
\* is that sum squared over k^2 var_i var_j); a node whose differences have
\* zero deviation gives no finite entry; the tensor is symmetric in (i, j).
C13_WindowedCoupling ==
    (/\ IsMethod(TemporalDerivativeAliases)
     /\ Coupled
     /\ pc = "correlated"
     /\ 1 <= WindowSize /\ WindowSize <= T_ - 1) =>
        \A i, j \in 0..N_ - 1 : \A w \in 0..(T_ - 1 - WindowSize) :
            LET e == R[i][j][w]
                k == WindowSize
                L == T_ - 1
                P == WindowProduct(i, j, w, k)
                Vi == ScaledVariance(i)
                Vj == ScaledVariance(j)
            IN  /\ R[j][i][w] = e
                /\ IF Vi > 0 /\ Vj > 0
                   THEN /\ e.f = "id"
                        /\ e.d > 0
                        /\ e.s = Sgn(P)
                        /\ e.n * (k * k * Vi * Vj) = e.d * (P * P * L * L * L * L)
                   ELSE e.d = 0

C13_Witness ==
    /\ IsMethod(TemporalDerivativeAliases)
    /\ pc = "correlated"
    /\ T_ = MaxT
    /\ N_ = 2
    /\ WindowSize = 1
    /\ ScaledVariance(0) > 0
    /\ ScaledVariance(1) > 0
    /\ R[0][1][0] # R[0][1][1]
    /\ R[0][1][0].s = -1

\* ---- C14
PostProcessing == pc = "corrected" /\ pc' = "postprocessed"

\* C14: with 'postpro' other than 'no' the tensor after post-processing is the
\* pipeline's output with every +inf and -inf entry replaced by 0 and every
\* finite or NaN entry as the pipeline left it, so it holds no infinity; with
\* 'postpro' absent or 'no' neither the pipeline nor the zeroing runs: tensor
\* and report stay as they are.  The tensor returned is that tensor.
C14_InfinitiesZeroed ==
    [][/\ (PostProcessing /\ params["postpro"] # "no") =>
             LET P == postpro_pipeline(R, params["postpro"], report).R
             IN  /\ DOMAIN R' = DOMAIN P
                 /\ \A i \in DOMAIN P :
                       /\ DOMAIN R'[i] = DOMAIN P[i]
                       /\ \A j \in DOMAIN P[i] :
                             /\ DOMAIN R'[i][j] = DOMAIN P[i][j]
                             /\ \A w \in DOMAIN P[i][j] :
                                   /\ R'[i][j][w] =
                                         IF P[i][j][w].d = 0 /\ P[i][j][w].s # 0
                                         THEN [f |-> "id", s |-> 0, n |-> 0, d |-> 1]
                                         ELSE P[i][j][w]
                                   /\ ~(R'[i][j][w].d = 0 /\ R'[i][j][w].s # 0)
       /\ (PostProcessing /\ params["postpro"] = "no") =>
             /\ R' = R
             /\ report' = report
       /\ pc = "postprocessed" => R' = R]_vars

\* a returned tensor where an infinity of the pipeline (the Fisher transform of
\* a correlation of -1) became 0 and a NaN stayed
C14_Witness ==
    /\ pc = "returned"
    /\ params["postpro"] = "fisher"
    /\ Weighted
    /\ \E i, j \in DOMAIN R : \E w \in DOMAIN R[i][j] :
          /\ i # j
          /\ corrcoef(cdata, weights[w])[i][j] = [f |-> "id", s |-> -1, n |-> 1, d |-> 1]
          /\ R[i][j][w] = RZero
    /\ \E i, j \in DOMAIN R : \E w \in DOMAIN R[i][j] : RIsNaN(R[i][j][w])

\* ---- C15
\* C15: every call of derive that succeeds hands back a pair, the tensor and
\* the report, whatever the method.
C15_ReturnsTensorAndReport ==
    pc = "returned" => returned = <<"R", "report">>

\* ---- C16
\* C16: derive leaves the caller's configuration mapping as it was: no step
\* of a call, successful or failing, adds a key to it (the defaults for
\* 'dimord', 'report', 'analysis_id', 'postpro'; the taper entries) or
\* changes a value.
C16_ParamsUntouched ==
    [][params' = params]_vars

\* ---- C17
\* C17: the report is append-only: a stage that is handed a report
\* (weightfun_jackknife, weightfun_sliding_window,
\* weightfun_tapered_sliding_window, weightfun_spatial_distance,
\* temporal_derivative) hands back a report that still has every key of the
\* one it was given, with the same value.
C17_ReportAppendOnly ==
    [][\A key \in DOMAIN report :
           /\ key \in DOMAIN report'
           /\ report'[key] = report[key]]_vars

\* ---- C18
\* the weight matrix of a successful call on time x node data d
WeightsOn(d, par) ==
    LET m == par["method"]
    IN  IF m.kind = "matrix" THEN m.matrix
        ELSE IF m.name \in JackknifeNames
        THEN weightfun_jackknife(Size(d), EmptyDict).weights
        ELSE IF m.name \in SlidingWindowNames
        THEN weightfun_sliding_window(Size(d), par, EmptyDict).weights
        ELSE IF m.name \in TaperedNames
        THEN weightfun_tapered_sliding_window(Size(d), par, EmptyDict).weights
        ELSE weightfun_spatial_distance(d, par, EmptyDict).weights

\* the tensor of a successful call of derive on time x node data d that is
\* not transposed
TensorOn(d, par) ==
    LET m == par["method"]
        raw == IF m.kind = "str" /\ m.name \in TemporalDerivativeNames
               THEN temporal_derivative(d, par, EmptyDict).R
               ELSE WeightedCorrelation(d, WeightsOn(d, par))
        signed == SignCorrection(m, raw)
    IN  IF par["postpro"] # "no"
        THEN ZeroInf(postpro_pipeline(signed, par["postpro"], EmptyDict).R)
        ELSE signed

TaperedAliases == {"tapered sliding window", "taperedslidingwindow"}

\* the density sps.uniform.pdf(x, loc, scale) is even: loc = -scale/2
EvenDensity ==
    /\ params["distribution"] = "uniform"
    /\ Len(params["distribution_params"]) = 2
    /\ 2 * params["distribution_params"][1] = -params["distribution_params"][2]

\* C19: for every window size k >= 1, odd or even, the abscissa of the taper
\* has exactly k points, consecutive points are 1 apart, the first is
\* -(k-1)/2 and the last (k-1)/2, so the points are symmetric about 0; with
\* an even density the taper is symmetric too, taper[i] = taper[k-1-i].
\* (The abscissa is held doubled: 2 apart, from -(k-1) to k-1.)
C19_TaperAbscissa ==
    (IsMethod(TaperedAliases) /\ Weighted) =>
        LET k == WindowSize
            x == params["taper_window"]
            taper == params["taper"].v
        IN  /\ k >= 1
            /\ DOMAIN x = 0..k - 1
            /\ x[0] = -(k - 1)
            /\ x[k - 1] = k - 1
            /\ \A i \in 0..k - 2 : x[i + 1] - x[i] = 2
            /\ \A i \in 0..k - 1 : x[i] = -x[k - 1 - i]
            /\ DOMAIN taper = 0..k - 1
            /\ EvenDensity => \A i \in 0..k - 1 : taper[i] = taper[k - 1 - i]

\* an even window, whose points are half-integers, under an even density
C19_Witness ==
    /\ IsMethod(TaperedAliases)
    /\ pc = "returned"
    /\ WindowSize = 2
    /\ EvenDensity
    /\ params["taper_window"][0] = -1
    /\ params["taper"].v[0] = Rat(1, 2)
    /\ params["taper"].v[1] = Rat(1, 2)

\* ---- C20
\* the distributions of this model and the number of parameters their pdf
\* takes besides x (loc and scale)
DistributionParameterCount == [d \in {"uniform"} |-> 2]

BadDistribution ==
    /\ {"windowsize", "distribution", "distribution_params"} \subseteq DOMAIN params
    /\ \/ params["distribution"] \notin DOMAIN DistributionParameterCount
       \/ Len(params["distribution_params"]) #
              DistributionParameterCount[params["distribution"]]

\* C20: with method 'taperedslidingwindow' a distribution name that is not
\* known, or a 'distribution_params' list whose length is not the number of
\* parameters of the distribution, ends in a configuration error: no weight
\* matrix is built and nothing is written to the report.
C20_BadDistributionRaises ==
    (/\ IsMethod(TaperedAliases)
     /\ pc \notin {"start", "dispatch"}
     /\ BadDistribution) =>
        /\ pc = "raised"
        /\ outcome \in ConfigurationError
        /\ weights = NoWeights
        /\ R = NoTensor
        /\ report = EmptyDict

\* ---- C21
SlidingAliases == {"slidingwindow", "sliding window"}

NonZeroColumns(row) == {j \in DOMAIN row : row[j] # Zero}

Contiguous(S) == \A a, b \in S : \A c \in a..b : c \in S

NonNegative(a) == a.d > 0 /\ a.n >= 0

\* a sliding-window weight matrix (uniform or tapered) built with 1 <= k <= T
WindowWeights ==
    /\ IsMethod(SlidingAliases \cup TaperedAliases)
    /\ Weighted
    /\ 1 <= WindowSize /\ WindowSize <= T_

\* C21 as claimed: for both sliding-window methods with 1 <= k <= T every
\* row of the weight matrix has exactly k non-zero entries, they are
\* contiguous and every weight is non-negative, also for a taper that is 0 at
\* some of its k points.
C21_ExactlyKNonZero ==
    WindowWeights =>
        \A i \in DOMAIN weights :
            /\ Cardinality(NonZeroColumns(weights[i])) = WindowSize
            /\ Contiguous(NonZeroColumns(weights[i]))
            /\ \A j \in DOMAIN weights[i] : NonNegative(weights[i][j])

\* C21: for both sliding-window methods with 1 <= k <= T the non-zero
\* entries of row i lie in the k contiguous columns i..i+k-1 and no weight is
\* negative; the uniform window is non-zero at all k of them; the tapered
\* window holds the taper there, entry [i][i+m] = taper[m], so a row has as
\* many non-zero entries as the taper has non-zero points.
C21_WindowSupport ==
    WindowWeights =>
        \A i \in DOMAIN weights :
            LET k == WindowSize
                nz == NonZeroColumns(weights[i])
            IN  /\ nz \subseteq i..(i + k - 1)
                /\ \A j \in DOMAIN weights[i] : NonNegative(weights[i][j])
                /\ IsMethod(SlidingAliases) => nz = i..(i + k - 1)
                /\ IsMethod(TaperedAliases) =>
                      /\ \A m \in 0..k - 1 :
                            weights[i][i + m] = params["taper"].v[m]
                      /\ Cardinality(nz) =
                            Cardinality(NonZeroColumns(params["taper"].v))

\* a tapered window of two points whose density is 0 at the first: the second
\* row of the weight matrix has one non-zero entry
C21_Witness ==
    /\ IsMethod(TaperedAliases)
    /\ pc = "returned"
    /\ WindowSize = 2
    /\ T_ = MaxT
    /\ params["taper"].v[0] = Zero
    /\ params["taper"].v[1] = One
    /\ NonZeroColumns(weights[1]) = {2}

\* ---- C27
\* C27: derive generates the report exactly when params['report'] is 'yes',
\* the value it takes when the key is absent: once, into
\* './report/' + analysis_id, as the last step before returning, when the
\* tensor is final; not before, not on a path that ends in an error, and not
\* at all (no external write) in a successful call with report 'no'.
C27_ReportGeneration ==
    /\ [](/\ pc # "returned" => written = <<>>
          /\ pc = "returned" =>
                written = IF params["report"] = "yes"
                          THEN <<(<<"./report/", params["analysis_id"]>>)>>
                          ELSE <<>>)
    /\ [][/\ written' # written =>
                /\ pc = "postprocessed" /\ pc' = "returned"
                /\ R' = R
                /\ returned' = <<"R">>
          /\ (pc = "start" /\ "report" \notin DOMAIN params) =>
                params'["report"] = "yes"]_vars

\* a successful call with no 'report' in params that generated the report
\* once, after post-processing the tensor
C27_Witness ==
    /\ pc = "returned"
    /\ params["report"] = "yes"
    /\ Len(written) = 1
    /\ R # NoTensor
    /\ IsMethod({"jackknife"})

\* ---- C24
\* an operation that records history has just run
Recorded == calls' > calls

\* C24: the history accumulates: after n operations that record history it
\* has n+1 entries, the first being the constructor's, and an operation
\* leaves the entries that were there in place, adding its own after them.
C24_HistoryAccumulates ==
    /\ [](/\ Len(history) = calls + 1
          /\ history[1][1] = "__init__")
    /\ [][Recorded =>
             /\ Len(history') > Len(history)
             /\ \A n \in 1..Len(history) : history'[n] = history[n]]_vars

\* ---- C25
\* C25: whatever operations came before, save_tenetobids_snapshot writes a
\* mapping whose keys are exactly the parameters of the constructor, never
\* the arguments of a later operation.
C25_SnapshotKeys ==
    invoked[1] = "save_tenetobids_snapshot" =>
        /\ raised = ""
        /\ tenetobids_snapshot = ConstructorParameters \ {"self"}

\* ---- C26
ParallelOperations == {"derive_temporalnetwork", "make_functional_connectivity"}

\* C26: a parallel operation runs with the number of workers of its njobs
\* argument, and with the object's njobs when the call gives none:
\* derive_temporalnetwork as well as make_functional_connectivity.
C26_ObjectNjobsUsed ==
    invoked[1] \in ParallelOperations =>
        max_workers = IF invoked[2] = <<>> \/ invoked[2] = <<0>>
                      THEN njobs
                      ELSE invoked[2][1]

\* ---- C30
\* C30: set_pipeline changes self.pipeline only to a directory that exists in
\* BIDS_dir/derivatives, and keeps it otherwise; so a
\* derive_temporalnetwork that records history leaves the three selectors
\* either all updated (pipeline 'teneto_<version>', pipeline_subdir 'tvc',
\* bids_suffix 'tvcconn') or all as they were.
C30_SelectorsUpdatedTogether ==
    [][/\ pipeline' # pipeline => pipeline' \in derivatives'
       /\ (Recorded /\ invoked'[1] = "derive_temporalnetwork") =>
             \/ /\ pipeline' = TenetoPipeline
                /\ pipeline_subdir' = "tvc"
                /\ bids_suffix' = "tvcconn"
             \/ UNCHANGED <<pipeline, pipeline_subdir, bids_suffix>>]_vars

\* the entries of a list
Range(s) == {s[n] : n \in DOMAIN s}

\* the paths get_selected_files returns in this state, with their counts
Selected ==
    get_selected_files(pipeline, pipeline_subdir, bids_suffix, disk, bad_files)

\* a result lists no path with a bad file in it and no path twice
NoBadNoDuplicate(found, bad) ==
    \A f \in DOMAIN found :
        /\ found[f] = 1
        /\ \A n \in DOMAIN bad : ~Contains(Path(f), bad[n])

\* the step is a call set_bad_files(F, oops=True) with bf in F
Undoes(bf) ==
    /\ invoked'[1] = "set_bad_files"
    /\ invoked'[2][3]
    /\ bf \in Range(invoked'[2][1])

\* the step is a call set_bad_files(F) that came back
Marks(bf) ==
    /\ invoked'[1] = "set_bad_files"
    /\ ~invoked'[2][3]
    /\ raised' = ""
    /\ bf \in Range(invoked'[2][1])

\* C28: in every state get_selected_files returns no path that contains an
\* entry of bad_files and no path twice; a file handed to set_bad_files is
\* an entry of bad_files from then on, hence in no result, until a call
\* set_bad_files(f, oops=True)
C28_BadFilesExcluded ==
    /\ []NoBadNoDuplicate(Selected, bad_files)
    /\ [][invoked'[1] = "get_selected_files" =>
            NoBadNoDuplicate(found_files', bad_files')]_vars
    /\ [][\A bf \in BadFileCandidates :
            /\ Marks(bf) =>
                 /\ bf \in Range(bad_files')
                 /\ \A f \in DOMAIN Selected' : Path(f) # bf
            /\ (bf \in Range(bad_files) /\ ~Undoes(bf)) =>
                 bf \in Range(bad_files')]_vars

\* a result that leaves out the marked file of subject 02 and keeps the other
C28_Witness ==
    /\ invoked[1] = "get_selected_files"
    /\ Range(bad_files) = {Path(File("fmriprep", "02", "rest", "", "preproc"))}
    /\ DOMAIN found_files = {File("fmriprep", "01", "rest", "", "preproc")}

\* C29: a call set_bad_files(F, oops=True) that comes back leaves no element
\* of F in bad_files and no element that was not there before, whatever
\* bad_files was (empty included)
C29_OopsOnlyRemoves ==
    [][(invoked'[1] = "set_bad_files" /\ invoked'[2][3] /\ raised' = "") =>
          /\ Range(bad_files') \cap Range(invoked'[2][1]) = {}
          /\ Range(bad_files') \subseteq Range(bad_files)]_vars

\* C23: the paths opened for writing by two workers that are at work at the
\* same time have nothing in common
C23_WriteSetsDisjoint ==
    \A f \in DOMAIN workers : \A g \in DOMAIN workers :
        (f # g /\ Running(workers[f]) /\ Running(workers[g])) =>
            opened[f] \cap opened[g] = {}

\* a cell of the tensor is named by a row of the table, in either order
Listed(c) ==
    \E r \in network : r.t = c[3] /\ {r.i, r.j} = {c[1], c[2]}

\* C22: for a symmetric tensor wrapped as an undirected weighted network with
\* threshold 0, the sparse table holds only rows with i < j, and the tensor
\* made from the table equals the original at every off-diagonal entry above
\* the threshold, is symmetric, and is zero on the diagonal and at every
\* entry no row names
C22_RoundTrip ==
    /\ held \in {"sparse", "rebuilt"} => \A r \in network : r.i < r.j
    /\ held = "rebuilt" =>
          \A c \in Cells(netshape) :
              /\ (c[1] # c[2] /\ array[c] > 0) => rebuilt[c] = array[c]
              /\ rebuilt[c] = rebuilt[<<c[2], c[1], c[3]>>]
              /\ c[1] = c[2] => rebuilt[c] = 0
              /\ ~Listed(c) => rebuilt[c] = 0

\* a three-node tensor rebuilt, with an edge above the threshold, one below
\* it, one at it, and a diagonal that was not zero
C22_Witness ==
    /\ held = "rebuilt"
    /\ netshape[1] = 3
    /\ array[<<0, 1, 0>>] = 1
    /\ array[<<0, 2, 0>>] = -1
    /\ array[<<1, 2, 0>>] = 0
    /\ array[<<1, 1, 0>>] = 1
    /\ rebuilt[<<1, 0, 0>>] = 1
    /\ Cardinality(network) = 1

====
